---- MODULE Spec2Model ----
(***************************************************************************)
(* Go-live orchestration of twitch_go.py: the module-level environment     *)
(* loading, the main dispatcher, run_preset (token acquisition, refresh    *)
(* and retry, prompts, category lookup, channel patch) and the OBS         *)
(* start/stop helpers.  Every remote call is one step whose outcome is     *)
(* chosen by the environment.                                              *)
(***************************************************************************)
EXTENDS Integers, Sequences, FiniteSets, TLC

(* Number of distinct token pairs the provider can hand out. *)
MaxToken == 2

VARIABLES
    pc,             \* position of the process in twitch_go.py
    environ,        \* os.environ after load_dotenv: which values are set
    args,           \* sys.argv[1:] reduced to its first word
    cfg,            \* the loaded config.yaml options that run_preset reads
    TOKEN_FILE,     \* ~/.twitch-go/tokens.json: <<>> if absent, <<t>> with content t
    tokens,         \* run_preset's local `tokens` (<<>> is None)
    access_token,   \* run_preset's local `access_token` (0 before assignment)
    broadcaster_id, \* run_preset's local `broadcaster_id` ("" before assignment)
    title,          \* run_preset's local `title`
    data,           \* get_game_id's local `data`, the last search result
    game_id,        \* the value of payload["game_id"] ("" before assignment)
    calls,          \* every file access, prompt and remote call issued, in order
    channel,        \* the channel metadata held by the remote API
    output_active,  \* OBS: whether the stream output is active
    obs,            \* the ReqClient connection of start_obs/stop_obs
    error           \* reason the process ended with a non-zero exit status

vars == <<pc, environ, args, cfg, TOKEN_FILE, tokens, access_token,
          broadcaster_id, title, data, game_id, calls, channel, output_active, obs, error>>

----------------------------------------------------------------------------
(* Data *)

(* A TokenSet is the JSON object returned by the token endpoint: it always
   carries access_token and refresh_token, and may carry further provider
   fields (here: scope). *)
TokenSets ==
    { [access_token |-> i, refresh_token |-> i] : i \in 1..MaxToken } \cup
    { [access_token |-> i, refresh_token |-> i, scope |-> "channel:manage:broadcast"] :
        i \in 1..MaxToken }

(* The token file a run can find: none, or one saved by an earlier run. *)
StoredFiles ==
    { <<>>, << [access_token |-> 1, refresh_token |-> 1,
                scope |-> "channel:manage:broadcast"] >> }

(* cfg["presets"] *)
PresetKeys == {"valorant", "chat"}

get_preset(key) ==
    IF key = "valorant"
    THEN [category |-> "VALORANT", title |-> "Ranked grind",
          go_live_notification |-> "Live now", tags |-> <<"FPS">>]
    ELSE [category |-> "Just Chatting", title |-> "Hanging out",
          go_live_notification |-> "Chatting", tags |-> <<>>]

(* First words of the command line that are modelled. *)
Commands == PresetKeys \cup {"stop", "bogus", ""}

(* Outcomes of a request made with `requests`: a 2xx response, a 401, some
   other non-2xx status (both make raise_for_status raise HTTPError), or an
   exception that is not an HTTPError (connection failure, timeout). *)
HttpResults == {"ok", "401", "http_error", "conn_error"}

(* What `except requests.HTTPError` catches. *)
IsHTTPError(res) == res \in {"401", "http_error"}

(* r.json()["data"] of GET /games *)
SearchResults == { <<>>, <<"509658">>, <<"509658", "33214">>, <<"33214", "509658">> }

(* Answers typed at the prompts. *)
TitleAnswers == {"", "Custom title"}
NotificationAnswers == {"", "Custom notification"}
ConfirmAnswers == {"", "y", "n", "N"}

(* the confirmation compared without .lower() *)
lower_missing(s) == s

lower(s) == IF s = "N" THEN "n" ELSE s

(* prompt(): `return v if v else default` *)
prompt(v, default) == IF v # "" THEN v ELSE default

(* load_tokens(): None when the file does not exist, else its content *)
load_tokens(file) == file

(* the new object merged into the stored one instead of replacing it *)
save_tokens_merge(file, t) == IF file = <<>> THEN << t >> ELSE << t @@ file[1] >>

(* save_tokens(): the file is rewritten with the given object *)
save_tokens(file, t) == << t >>

Call(op, res, tok) == [op |-> op, res |-> res, tok |-> tok]

Die(msg) == /\ pc' = "Failed"
            /\ error' = msg

----------------------------------------------------------------------------
Init ==
    /\ pc = "env"
    /\ environ \in [TWITCH_CREDENTIALS : BOOLEAN, OBS_WS_PASSWORD : BOOLEAN]
    /\ args \in Commands
    /\ cfg \in [confirm : BOOLEAN, auto_start : BOOLEAN]
    /\ TOKEN_FILE \in StoredFiles
    /\ tokens = <<>>
    /\ access_token = 0
    /\ broadcaster_id = ""
    /\ title = ""
    /\ data = <<>>
    /\ game_id = ""
    /\ calls = <<>>
    /\ channel = [title |-> "Previous title", game_id |-> "0"]
    /\ output_active \in BOOLEAN
    /\ obs = "none"
    /\ error = ""

----------------------------------------------------------------------------
(* Module level, lines 148-164: the three Twitch credentials are required,
   the OBS values are read with os.environ.get and are optional here. *)
module_env ==
    /\ pc = "env"
    /\ IF environ.TWITCH_CREDENTIALS
       THEN pc' = "main" /\ error' = error
       ELSE Die("Missing required environment variable")
    /\ UNCHANGED <<environ, args, cfg, TOKEN_FILE, tokens, access_token,
                   broadcaster_id, title, data, game_id, calls, channel,
                   output_active, obs>>

(* main() without the `cmd in cfg["presets"]` test *)
main_unchecked ==
    /\ pc = "main"
    /\ IF args = "" THEN pc' = "Exit" /\ error' = error
       ELSE IF args = "stop" THEN pc' = "stop_obs" /\ error' = error
       ELSE pc' = "run_preset" /\ error' = error
    /\ UNCHANGED <<environ, args, cfg, TOKEN_FILE, tokens, access_token,
                   broadcaster_id, title, data, game_id, calls, channel,
                   output_active, obs>>

(* main(): dispatch on the first argument (the edit and intro commands are
   not modelled). *)
main ==
    /\ pc = "main"
    /\ IF args = "" THEN pc' = "Exit" /\ error' = error
       ELSE IF args = "stop" THEN pc' = "stop_obs" /\ error' = error
       ELSE IF args \in PresetKeys THEN pc' = "run_preset" /\ error' = error
       ELSE Die("Unknown command or preset")
    /\ UNCHANGED <<environ, args, cfg, TOKEN_FILE, tokens, access_token,
                   broadcaster_id, title, data, game_id, calls, channel,
                   output_active, obs>>

(* the stored tokens ignored: every run asks for a new authorization code *)
run_preset_load_tokens_ignored ==
    /\ pc = "run_preset"
    /\ tokens' = load_tokens(TOKEN_FILE)
    /\ calls' = Append(calls, Call("load_tokens", "ok", 0))
    /\ pc' = "exchange_code"
    /\ UNCHANGED <<environ, args, cfg, TOKEN_FILE, access_token,
                   broadcaster_id, title, data, game_id, channel,
                   output_active, obs, error>>

(* run_preset, lines 388-391: tokens = load_tokens(); if not tokens: ... *)
run_preset_load_tokens ==
    /\ pc = "run_preset"
    /\ tokens' = load_tokens(TOKEN_FILE)
    /\ calls' = Append(calls, Call("load_tokens", "ok", 0))
    /\ pc' = IF tokens' = <<>> THEN "exchange_code" ELSE "get_broadcaster_id"
    /\ UNCHANGED <<environ, args, cfg, TOKEN_FILE, access_token,
                   broadcaster_id, title, data, game_id, channel,
                   output_active, obs, error>>

(* run_preset, lines 392-396: the code is typed in, exchanged, and the
   result saved; a failed exchange propagates. *)
run_preset_exchange_code ==
    /\ pc = "exchange_code"
    /\ \E res \in HttpResults, t \in TokenSets :
         IF res = "ok"
         THEN /\ tokens' = << t >>
              /\ TOKEN_FILE' = save_tokens(TOKEN_FILE, t)
              /\ calls' = calls \o << Call("input_code", "code", 0),
                                      Call("exchange_code", res, 0),
                                      Call("save_tokens", "ok", 0) >>
              /\ pc' = "get_broadcaster_id"
              /\ error' = error
         ELSE /\ calls' = calls \o << Call("input_code", "code", 0),
                                      Call("exchange_code", res, 0) >>
              /\ Die(res)
              /\ UNCHANGED <<tokens, TOKEN_FILE>>
    /\ UNCHANGED <<environ, args, cfg, access_token, broadcaster_id, title,
                   data, game_id, channel, output_active, obs>>

(* run_preset, lines 398-401: the first account lookup; an HTTPError is
   caught by the except clause, anything else propagates. *)
run_preset_get_broadcaster_id ==
    /\ pc = "get_broadcaster_id"
    /\ access_token' = tokens[1].access_token
    /\ \E res \in HttpResults :
         /\ calls' = Append(calls, Call("get_broadcaster_id", res, access_token'))
         /\ IF res = "ok"
            THEN broadcaster_id' = "141981764" /\ pc' = "prompt" /\ error' = error
            ELSE IF IsHTTPError(res)
            THEN pc' = "refresh_tokens" /\ UNCHANGED <<broadcaster_id, error>>
            ELSE Die(res) /\ UNCHANGED broadcaster_id
    /\ UNCHANGED <<environ, args, cfg, TOKEN_FILE, tokens, title, data,
                   game_id, channel, output_active, obs>>

(* a rejected refresh removes the stored tokens *)
run_preset_refresh_clears_file ==
    /\ pc = "refresh_tokens"
    /\ \E res \in HttpResults, t \in TokenSets :
         IF res = "ok"
         THEN /\ tokens' = << t >>
              /\ TOKEN_FILE' = save_tokens(TOKEN_FILE, t)
              /\ access_token' = t.access_token
              /\ calls' = calls \o << Call("refresh_tokens", res, 0),
                                      Call("save_tokens", "ok", 0) >>
              /\ pc' = "retry_get_broadcaster_id"
              /\ error' = error
         ELSE /\ calls' = Append(calls, Call("refresh_tokens", res, 0))
              /\ Die(res)
              /\ TOKEN_FILE' = <<>>
              /\ UNCHANGED <<tokens, access_token>>
    /\ UNCHANGED <<environ, args, cfg, broadcaster_id, title, data, game_id,
                   channel, output_active, obs>>

(* a rejected refresh falls back to a new authorization-code grant *)
run_preset_refresh_falls_back ==
    /\ pc = "refresh_tokens"
    /\ \E res \in HttpResults, t \in TokenSets :
         IF res = "ok"
         THEN /\ tokens' = << t >>
              /\ TOKEN_FILE' = save_tokens(TOKEN_FILE, t)
              /\ access_token' = t.access_token
              /\ calls' = calls \o << Call("refresh_tokens", res, 0),
                                      Call("save_tokens", "ok", 0) >>
              /\ pc' = "retry_get_broadcaster_id"
              /\ error' = error
         ELSE /\ calls' = Append(calls, Call("refresh_tokens", res, 0))
              /\ pc' = "exchange_code"
              /\ UNCHANGED <<tokens, TOKEN_FILE, access_token, error>>
    /\ UNCHANGED <<environ, args, cfg, broadcaster_id, title, data, game_id,
                   channel, output_active, obs>>

(* the refreshed tokens saved, the old access token still used (line 404 missing) *)
run_preset_refresh_stale_token ==
    /\ pc = "refresh_tokens"
    /\ \E res \in HttpResults, t \in TokenSets :
         IF res = "ok"
         THEN /\ tokens' = << t >>
              /\ TOKEN_FILE' = save_tokens(TOKEN_FILE, t)
              /\ calls' = calls \o << Call("refresh_tokens", res, 0),
                                      Call("save_tokens", "ok", 0) >>
              /\ pc' = "retry_get_broadcaster_id"
              /\ error' = error
         ELSE /\ calls' = Append(calls, Call("refresh_tokens", res, 0))
              /\ Die(res)
              /\ UNCHANGED <<tokens, TOKEN_FILE>>
    /\ UNCHANGED <<environ, args, cfg, access_token, broadcaster_id, title,
                   data, game_id, channel, output_active, obs>>

(* run_preset, lines 402-404: refresh, save, take the new access token; a
   failed refresh propagates out of the except clause. *)
run_preset_refresh_tokens ==
    /\ pc = "refresh_tokens"
    /\ \E res \in HttpResults, t \in TokenSets :
         IF res = "ok"
         THEN /\ tokens' = << t >>
              /\ TOKEN_FILE' = save_tokens(TOKEN_FILE, t)
              /\ access_token' = t.access_token
              /\ calls' = calls \o << Call("refresh_tokens", res, 0),
                                      Call("save_tokens", "ok", 0) >>
              /\ pc' = "retry_get_broadcaster_id"
              /\ error' = error
         ELSE /\ calls' = Append(calls, Call("refresh_tokens", res, 0))
              /\ Die(res)
              /\ UNCHANGED <<tokens, TOKEN_FILE, access_token>>
    /\ UNCHANGED <<environ, args, cfg, broadcaster_id, title, data, game_id,
                   channel, output_active, obs>>

(* the second lookup wrapped in the same try/except as the first *)
run_preset_retry_loops ==
    /\ pc = "retry_get_broadcaster_id"
    /\ \E res \in HttpResults :
         /\ calls' = Append(calls, Call("get_broadcaster_id", res, access_token))
         /\ IF res = "ok"
            THEN broadcaster_id' = "141981764" /\ pc' = "prompt" /\ error' = error
            ELSE IF IsHTTPError(res)
            THEN pc' = "refresh_tokens" /\ UNCHANGED <<broadcaster_id, error>>
            ELSE Die(res) /\ UNCHANGED broadcaster_id
    /\ UNCHANGED <<environ, args, cfg, TOKEN_FILE, tokens, access_token, title,
                   data, game_id, channel, output_active, obs>>

(* run_preset, line 405: the second account lookup, outside any try. *)
run_preset_retry_get_broadcaster_id ==
    /\ pc = "retry_get_broadcaster_id"
    /\ \E res \in HttpResults :
         /\ calls' = Append(calls, Call("get_broadcaster_id", res, access_token))
         /\ IF res = "ok"
            THEN broadcaster_id' = "141981764" /\ pc' = "prompt" /\ error' = error
            ELSE Die(res) /\ UNCHANGED broadcaster_id
    /\ UNCHANGED <<environ, args, cfg, TOKEN_FILE, tokens, access_token, title,
                   data, game_id, channel, output_active, obs>>

(* a declined confirmation that does not end the run *)
run_preset_prompt_no_die ==
    /\ pc = "prompt"
    /\ \E v \in TitleAnswers, n \in NotificationAnswers :
         /\ title' = prompt(v, get_preset(args).title)
         /\ IF cfg.confirm
            THEN \E c \in ConfirmAnswers :
                   calls' = calls \o << Call("prompt", v, 0), Call("prompt", n, 0),
                                        Call("confirm", c, 0) >>
            ELSE calls' = calls \o << Call("prompt", v, 0), Call("prompt", n, 0) >>
         /\ pc' = "get_game_id"
         /\ error' = error
    /\ UNCHANGED <<environ, args, cfg, TOKEN_FILE, tokens, access_token,
                   broadcaster_id, data, game_id, channel, output_active, obs>>

(* run_preset, lines 407-420: title prompt, notification prompt (its value
   is dropped), and the confirmation when cfg asks for it. *)
run_preset_prompt ==
    /\ pc = "prompt"
    /\ \E v \in TitleAnswers, n \in NotificationAnswers :
         /\ title' = prompt(v, get_preset(args).title)
         /\ IF cfg.confirm
            THEN \E c \in ConfirmAnswers :
                   /\ calls' = calls \o << Call("prompt", v, 0), Call("prompt", n, 0),
                                           Call("confirm", c, 0) >>
                   /\ IF lower(c) = "n"
                      THEN Die("Aborted")
                      ELSE pc' = "get_game_id" /\ error' = error
            ELSE /\ calls' = calls \o << Call("prompt", v, 0), Call("prompt", n, 0) >>
                 /\ pc' = "get_game_id"
                 /\ error' = error
    /\ UNCHANGED <<environ, args, cfg, TOKEN_FILE, tokens, access_token,
                   broadcaster_id, data, game_id, channel, output_active, obs>>

(* get_game_id without the `if not data` check *)
run_preset_get_game_id_unchecked ==
    /\ pc = "get_game_id"
    /\ \E res \in HttpResults, d \in SearchResults :
         IF res = "ok"
         THEN /\ data' = d
              /\ calls' = Append(calls, Call("get_game_id",
                                 IF d = <<>> THEN "empty" ELSE "ok", access_token))
              /\ game_id' = IF d = <<>> THEN "" ELSE d[1]
              /\ pc' = "update_channel"
              /\ error' = error
         ELSE /\ calls' = Append(calls, Call("get_game_id", res, access_token))
              /\ Die(res)
              /\ UNCHANGED <<data, game_id>>
    /\ UNCHANGED <<environ, args, cfg, TOKEN_FILE, tokens, access_token,
                   broadcaster_id, title, channel, output_active, obs>>

(* a category lookup that is sent again after a connection failure *)
run_preset_get_game_id_retries ==
    /\ pc = "get_game_id"
    /\ Len(calls) < 12
    /\ \E res \in HttpResults, d \in SearchResults :
         IF res = "ok"
         THEN /\ data' = d
              /\ IF d = <<>>
                 THEN /\ calls' = Append(calls, Call("get_game_id", "empty", access_token))
                      /\ Die("Game not found on Twitch")
                      /\ UNCHANGED game_id
                 ELSE /\ calls' = Append(calls, Call("get_game_id", "ok", access_token))
                      /\ game_id' = d[1]
                      /\ pc' = "update_channel"
                      /\ error' = error
         ELSE /\ calls' = Append(calls, Call("get_game_id", res, access_token))
              /\ IF res = "conn_error"
                 THEN UNCHANGED <<pc, error>>
                 ELSE Die(res)
              /\ UNCHANGED <<data, game_id>>
    /\ UNCHANGED <<environ, args, cfg, TOKEN_FILE, tokens, access_token,
                   broadcaster_id, title, channel, output_active, obs>>

(* run_preset, lines 422-425 with get_game_id: an empty search result is
   fatal, otherwise the first element's id is taken. *)
run_preset_get_game_id ==
    /\ pc = "get_game_id"
    /\ \E res \in HttpResults, d \in SearchResults :
         IF res = "ok"
         THEN /\ data' = d
              /\ IF d = <<>>
                 THEN /\ calls' = Append(calls, Call("get_game_id", "empty", access_token))
                      /\ Die("Game not found on Twitch")
                      /\ UNCHANGED game_id
                 ELSE /\ calls' = Append(calls, Call("get_game_id", "ok", access_token))
                      /\ game_id' = d[1]
                      /\ pc' = "update_channel"
                      /\ error' = error
         ELSE /\ calls' = Append(calls, Call("get_game_id", res, access_token))
              /\ Die(res)
              /\ UNCHANGED <<data, game_id>>
    /\ UNCHANGED <<environ, args, cfg, TOKEN_FILE, tokens, access_token,
                   broadcaster_id, title, channel, output_active, obs>>

(* the tags field sent even when the preset has no tags *)
Payload_tags_always(t, g, tags) == [title |-> t, game_id |-> g, tags |-> tags]

(* run_preset, lines 422-428: the payload; tags only when the list is not
   empty. *)
Payload(t, g, tags) ==
    IF tags # <<>>
    THEN [title |-> t, game_id |-> g, tags |-> tags]
    ELSE [title |-> t, game_id |-> g]

(* start_obs() called whatever the auto_start option says *)
run_preset_update_channel_always_starts ==
    /\ pc = "update_channel"
    /\ \E res \in HttpResults :
         /\ calls' = Append(calls, Call("update_channel", res, access_token))
         /\ IF res = "ok"
            THEN /\ channel' = Payload(title, game_id, get_preset(args).tags)
                 /\ pc' = "start_obs"
                 /\ error' = error
            ELSE Die(res) /\ UNCHANGED channel
    /\ UNCHANGED <<environ, args, cfg, TOKEN_FILE, tokens, access_token,
                   broadcaster_id, title, data, game_id, output_active, obs>>

(* update_channel without raise_for_status: a rejected patch goes unnoticed *)
run_preset_update_channel_unchecked ==
    /\ pc = "update_channel"
    /\ \E res \in HttpResults :
         /\ calls' = Append(calls, Call("update_channel", res, access_token))
         /\ channel' = IF res = "ok"
                       THEN Payload(title, game_id, get_preset(args).tags)
                       ELSE channel
         /\ pc' = IF cfg.auto_start THEN "start_obs" ELSE "Done"
         /\ error' = error
    /\ UNCHANGED <<environ, args, cfg, TOKEN_FILE, tokens, access_token,
                   broadcaster_id, title, data, game_id, output_active, obs>>

(* the auto_start option read negated *)
run_preset_update_channel_negated ==
    /\ pc = "update_channel"
    /\ \E res \in HttpResults :
         /\ calls' = Append(calls, Call("update_channel", res, access_token))
         /\ IF res = "ok"
            THEN /\ channel' = Payload(title, game_id, get_preset(args).tags)
                 /\ pc' = IF ~cfg.auto_start THEN "start_obs" ELSE "Done"
                 /\ error' = error
            ELSE Die(res) /\ UNCHANGED channel
    /\ UNCHANGED <<environ, args, cfg, TOKEN_FILE, tokens, access_token,
                   broadcaster_id, title, data, game_id, output_active, obs>>

(* a rejected patch sent again *)
run_preset_update_channel_again ==
    /\ pc = "update_channel"
    /\ Len(calls) < 12
    /\ \E res \in HttpResults :
         /\ calls' = Append(calls, Call("update_channel", res, access_token))
         /\ IF res = "ok"
            THEN /\ channel' = Payload(title, game_id, get_preset(args).tags)
                 /\ pc' = IF cfg.auto_start THEN "start_obs" ELSE "Done"
                 /\ error' = error
            ELSE IF res = "401"
            THEN UNCHANGED <<pc, error, channel>>
            ELSE Die(res) /\ UNCHANGED channel
    /\ UNCHANGED <<environ, args, cfg, TOKEN_FILE, tokens, access_token,
                   broadcaster_id, title, data, game_id, output_active, obs>>

(* run_preset, lines 430-434: the patch, then start_obs() when auto_start
   is on, else "Go live complete". *)
run_preset_update_channel ==
    /\ pc = "update_channel"
    /\ \E res \in HttpResults :
         /\ calls' = Append(calls, Call("update_channel", res, access_token))
         /\ IF res = "ok"
            THEN /\ channel' = Payload(title, game_id, get_preset(args).tags)
                 /\ pc' = IF cfg.auto_start THEN "start_obs" ELSE "Done"
                 /\ error' = error
            ELSE Die(res) /\ UNCHANGED channel
    /\ UNCHANGED <<environ, args, cfg, TOKEN_FILE, tokens, access_token,
                   broadcaster_id, title, data, game_id, output_active, obs>>

----------------------------------------------------------------------------
(* Outcomes of a request to the OBS websocket. *)
ObsResults == {"ok", "unavailable"}

(* an unreachable controller undoes the channel update *)
start_obs_connect_rollback ==
    /\ pc = "start_obs"
    /\ IF ~environ.OBS_WS_PASSWORD
       THEN Die("OBS_WS_PASSWORD not set") /\ UNCHANGED <<calls, obs, channel>>
       ELSE \E res \in ObsResults :
              IF res = "ok"
              THEN /\ calls' = Append(calls, Call("obs_connect", res, 0))
                   /\ obs' = "connected" /\ pc' = "start_obs_status" /\ error' = error
                   /\ UNCHANGED channel
              ELSE /\ calls' = calls \o << Call("obs_connect", res, 0),
                                           Call("update_channel", "ok", access_token) >>
                   /\ channel' = [title |-> "Previous title", game_id |-> "0"]
                   /\ Die(res) /\ UNCHANGED obs
    /\ UNCHANGED <<environ, args, cfg, TOKEN_FILE, tokens, access_token,
                   broadcaster_id, title, data, game_id, output_active>>

(* start_obs, lines 339-347: password check, then ReqClient(...) connects. *)
start_obs_connect ==
    /\ pc = "start_obs"
    /\ IF ~environ.OBS_WS_PASSWORD
       THEN Die("OBS_WS_PASSWORD not set") /\ UNCHANGED <<calls, obs>>
       ELSE \E res \in ObsResults :
              /\ calls' = Append(calls, Call("obs_connect", res, 0))
              /\ IF res = "ok"
                 THEN obs' = "connected" /\ pc' = "start_obs_status" /\ error' = error
                 ELSE Die(res) /\ UNCHANGED obs
    /\ UNCHANGED <<environ, args, cfg, TOKEN_FILE, tokens, access_token,
                   broadcaster_id, title, data, game_id, channel, output_active>>

(* the start issued whatever the status says *)
start_obs_status_ungated ==
    /\ pc = "start_obs_status"
    /\ \E res \in ObsResults :
         IF res = "ok"
         THEN /\ calls' = Append(calls, Call("get_stream_status",
                                 IF output_active THEN "active" ELSE "inactive", 0))
              /\ pc' = "start_stream"
              /\ error' = error
         ELSE /\ calls' = Append(calls, Call("get_stream_status", res, 0))
              /\ Die(res)
    /\ UNCHANGED <<environ, args, cfg, TOKEN_FILE, tokens, access_token,
                   broadcaster_id, title, data, game_id, channel,
                   output_active, obs>>

(* start_obs, lines 349-350: status = obs.get_stream_status() *)
start_obs_get_stream_status ==
    /\ pc = "start_obs_status"
    /\ \E res \in ObsResults :
         IF res = "ok"
         THEN /\ calls' = Append(calls, Call("get_stream_status",
                                 IF output_active THEN "active" ELSE "inactive", 0))
              /\ pc' = IF output_active THEN "Done" ELSE "start_stream"
              /\ error' = error
         ELSE /\ calls' = Append(calls, Call("get_stream_status", res, 0))
              /\ Die(res)
    /\ UNCHANGED <<environ, args, cfg, TOKEN_FILE, tokens, access_token,
                   broadcaster_id, title, data, game_id, channel,
                   output_active, obs>>

(* a new connection opened for the start request *)
start_obs_start_stream_reconnects ==
    /\ pc = "start_stream"
    /\ \E res \in ObsResults :
         /\ calls' = calls \o << Call("obs_connect", "ok", 0),
                                 Call("start_stream", res, 0) >>
         /\ IF res = "ok"
            THEN output_active' = TRUE /\ pc' = "Done" /\ error' = error
            ELSE Die(res) /\ UNCHANGED output_active
    /\ UNCHANGED <<environ, args, cfg, TOKEN_FILE, tokens, access_token,
                   broadcaster_id, title, data, game_id, channel, obs>>

(* a refused start request that still reports "Go live complete" *)
start_obs_start_stream_unchecked ==
    /\ pc = "start_stream"
    /\ \E res \in ObsResults :
         /\ calls' = Append(calls, Call("start_stream", res, 0))
         /\ output_active' = IF res = "ok" THEN TRUE ELSE output_active
         /\ pc' = "Done"
         /\ error' = error
    /\ UNCHANGED <<environ, args, cfg, TOKEN_FILE, tokens, access_token,
                   broadcaster_id, title, data, game_id, channel, obs>>

(* start_obs, lines 351-352, and run_preset line 436 *)
start_obs_start_stream ==
    /\ pc = "start_stream"
    /\ \E res \in ObsResults :
         /\ calls' = Append(calls, Call("start_stream", res, 0))
         /\ IF res = "ok"
            THEN output_active' = TRUE /\ pc' = "Done" /\ error' = error
            ELSE Die(res) /\ UNCHANGED output_active
    /\ UNCHANGED <<environ, args, cfg, TOKEN_FILE, tokens, access_token,
                   broadcaster_id, title, data, game_id, channel, obs>>

(* stop_obs, lines 355-363 *)
stop_obs_connect ==
    /\ pc = "stop_obs"
    /\ IF ~environ.OBS_WS_PASSWORD
       THEN Die("OBS_WS_PASSWORD not set") /\ UNCHANGED <<calls, obs>>
       ELSE \E res \in ObsResults :
              /\ calls' = Append(calls, Call("obs_connect", res, 0))
              /\ IF res = "ok"
                 THEN obs' = "connected" /\ pc' = "stop_obs_status" /\ error' = error
                 ELSE Die(res) /\ UNCHANGED obs
    /\ UNCHANGED <<environ, args, cfg, TOKEN_FILE, tokens, access_token,
                   broadcaster_id, title, data, game_id, channel, output_active>>

(* the stop issued whatever the status says *)
stop_obs_status_ungated ==
    /\ pc = "stop_obs_status"
    /\ \E res \in ObsResults :
         IF res = "ok"
         THEN /\ calls' = Append(calls, Call("get_stream_status",
                                 IF output_active THEN "active" ELSE "inactive", 0))
              /\ pc' = "stop_stream"
              /\ error' = error
         ELSE /\ calls' = Append(calls, Call("get_stream_status", res, 0))
              /\ Die(res)
    /\ UNCHANGED <<environ, args, cfg, TOKEN_FILE, tokens, access_token,
                   broadcaster_id, title, data, game_id, channel,
                   output_active, obs>>

(* stop_obs, lines 365-366 and 369-370 *)
stop_obs_get_stream_status ==
    /\ pc = "stop_obs_status"
    /\ \E res \in ObsResults :
         IF res = "ok"
         THEN /\ calls' = Append(calls, Call("get_stream_status",
                                 IF output_active THEN "active" ELSE "inactive", 0))
              /\ pc' = IF output_active THEN "stop_stream" ELSE "Exit"
              /\ error' = error
         ELSE /\ calls' = Append(calls, Call("get_stream_status", res, 0))
              /\ Die(res)
    /\ UNCHANGED <<environ, args, cfg, TOKEN_FILE, tokens, access_token,
                   broadcaster_id, title, data, game_id, channel,
                   output_active, obs>>

(* stop_obs, lines 367-368 *)
stop_obs_stop_stream ==
    /\ pc = "stop_stream"
    /\ \E res \in ObsResults :
         /\ calls' = Append(calls, Call("stop_stream", res, 0))
         /\ IF res = "ok"
            THEN output_active' = FALSE /\ pc' = "Exit" /\ error' = error
            ELSE Die(res) /\ UNCHANGED output_active
    /\ UNCHANGED <<environ, args, cfg, TOKEN_FILE, tokens, access_token,
                   broadcaster_id, title, data, game_id, channel, obs>>

----------------------------------------------------------------------------
Next ==
    \/ module_env
    \/ main
    \/ run_preset_load_tokens
    \/ run_preset_exchange_code
    \/ run_preset_get_broadcaster_id
    \/ run_preset_refresh_tokens
    \/ run_preset_retry_get_broadcaster_id
    \/ run_preset_prompt
    \/ run_preset_get_game_id
    \/ run_preset_update_channel
    \/ start_obs_connect
    \/ start_obs_get_stream_status
    \/ start_obs_start_stream
    \/ stop_obs_connect
    \/ stop_obs_get_stream_status
    \/ stop_obs_stop_stream

Spec == Init /\ [][Next]_vars

----------------------------------------------------------------------------
(* Reading the call log *)

Idx(op) == { i \in DOMAIN calls : calls[i].op = op }
Count(op) == Cardinality(Idx(op))

MetadataOps == {"get_broadcaster_id", "get_game_id", "update_channel"}
ControllerOps == {"obs_connect", "get_stream_status", "start_stream", "stop_stream"}

ControllerCalls == { i \in DOMAIN calls : calls[i].op \in ControllerOps }

(* The requests of the run, connection set-up, prompts and file accesses
   left out, as the sequence of their names. *)
IsRequest(c) == c.op \in (MetadataOps \cup {"exchange_code", "refresh_tokens",
                          "get_stream_status", "start_stream", "stop_stream"})
Requests == LET r == SelectSeq(calls, IsRequest)
            IN  [ i \in 1..Len(r) |-> r[i].op ]

Declined == \E i \in Idx("confirm") : calls[i].res \in {"n", "N"}

RefreshRejected == \E i \in Idx("refresh_tokens") : calls[i].res # "ok"

----------------------------------------------------------------------------
(* C1: the account lookup is retried at most once, after exactly one
   refresh.  There are never more than one refresh and two lookups; when
   the first lookup was rejected with a 401 and a second one was made, one
   successful refresh lies between them; if the second succeeded the run
   goes on to the prompts, if it failed the run is Failed with that error
   and the failed lookup is the last call issued. *)
C1_BoundedRetry ==
    /\ Count("refresh_tokens") <= 1
    /\ Count("get_broadcaster_id") <= 2
    /\ \A i, j \in Idx("get_broadcaster_id") :
         (i < j /\ calls[i].res = "401") =>
           /\ \E r \in Idx("refresh_tokens") : i < r /\ r < j /\ calls[r].res = "ok"
           /\ calls[j].res = "ok" =>
                (broadcaster_id # "" /\ (j = Len(calls) => pc = "prompt"))
           /\ calls[j].res # "ok" =>
                (pc = "Failed" /\ error = calls[j].res /\ j = Len(calls))

C1_Witness ==
    /\ pc = "Failed"
    /\ Count("get_broadcaster_id") = 2
    /\ Count("refresh_tokens") = 1
    /\ \A i \in Idx("get_broadcaster_id") : calls[i].res = "401"

(* C2: once the user has declined the confirmation, no update_channel call
   and no controller call has been made, and the run is Failed with the
   reason "Aborted". *)
C2_AbortBeforeMutation ==
    Declined => /\ Count("update_channel") = 0
                /\ ControllerCalls = {}
                /\ pc = "Failed"
                /\ error = "Aborted"

C2_Witness == Declined /\ calls[Len(calls)].res = "N"

(* C3: in a preset run every start_stream directly follows a
   get_stream_status that answered inactive; when the run has ended, a
   status answer of active goes with zero start calls and an answer of
   inactive with exactly one. *)
C3_StartGating ==
    args \in PresetKeys =>
      /\ \A i \in Idx("start_stream") :
           i > 1 /\ calls[i-1].op = "get_stream_status" /\ calls[i-1].res = "inactive"
      /\ Count("start_stream") <= 1
      /\ pc \in {"Done", "Failed"} =>
           \A i \in Idx("get_stream_status") :
             /\ calls[i].res = "active" => Count("start_stream") = 0
             /\ calls[i].res = "inactive" => Count("start_stream") = 1

C3_Witness ==
    /\ pc = "Done"
    /\ Count("start_stream") = 1
    /\ \E i \in Idx("get_stream_status") : calls[i].res = "inactive"

(* C4: the step in which the refresh request is rejected leaves the token
   file as it was, ends the run in Failed, and issues nothing after the
   refresh request (no save_tokens). *)
C4_FailedRefreshKeepsFile ==
    [][ RefreshRejected' =>
          /\ TOKEN_FILE' = TOKEN_FILE
          /\ pc' = "Failed"
          /\ calls'[Len(calls')].op = "refresh_tokens" ]_vars

C4_Witness == RefreshRejected /\ TOKEN_FILE # <<>> /\ pc = "Failed"

(* C5: once an exchange or a refresh has succeeded (a save_tokens was made)
   the token file holds exactly the TokenSet that was returned, which is
   the run's `tokens`: same fields, same values. *)
C5_WholeRecordReplacement ==
    Count("save_tokens") > 0 =>
      /\ TOKEN_FILE = tokens
      /\ DOMAIN TOKEN_FILE[1] = DOMAIN tokens[1]

C5_Witness ==
    /\ Count("refresh_tokens") = 1
    /\ Count("exchange_code") = 0
    /\ Count("save_tokens") = 1
    /\ "scope" \notin DOMAIN TOKEN_FILE[1]

(* C6: once the category search has returned an empty list the run is
   Failed and has made no update_channel call and no controller call. *)
C6_CategoryNotFound ==
    (\E i \in Idx("get_game_id") : calls[i].res = "empty") =>
      /\ pc = "Failed"
      /\ Count("update_channel") = 0
      /\ ControllerCalls = {}

C6_Witness ==
    /\ \E i \in Idx("get_game_id") : calls[i].res = "empty"
    /\ data = <<>>
    /\ error = "Game not found on Twitch"

(* C7: a preset run that found stored tokens, had every call succeed, was
   not declined, has auto_start on with the controller password set and
   found the stream inactive ends in Done, and its requests are, in order:
   account lookup, category lookup, patch, status query, start. *)
AllSucceeded ==
    \A i \in DOMAIN calls :
      calls[i].op \in (MetadataOps \cup ControllerOps \cup {"refresh_tokens", "exchange_code"})
        => calls[i].res \in {"ok", "inactive"}

HappyPath ==
    /\ args \in PresetKeys
    /\ environ.TWITCH_CREDENTIALS /\ environ.OBS_WS_PASSWORD
    /\ cfg.auto_start
    /\ Count("load_tokens") = 1 /\ Count("exchange_code") = 0
    /\ AllSucceeded
    /\ ~Declined

C7_HappyPathSequence ==
    (HappyPath /\ pc \in {"Done", "Failed", "Exit"}) =>
      /\ pc = "Done"
      /\ Requests = << "get_broadcaster_id", "get_game_id", "update_channel",
                       "get_stream_status", "start_stream" >>

C7_Witness == HappyPath /\ pc = "Done" /\ output_active /\ args = "valorant"

(* C8 as stated: when the run has ended and an update_channel call was
   rejected with a 401, exactly one refresh followed it and then one more
   update_channel. *)
C8_PatchRetried ==
    pc \in {"Done", "Failed"} =>
      \A i \in Idx("update_channel") :
        calls[i].res = "401" =>
          /\ Cardinality({ r \in Idx("refresh_tokens") : r > i }) = 1
          /\ Cardinality({ j \in Idx("update_channel") : j > i }) = 1

(* C8 amended: only the account lookup is covered by refresh-and-retry.  A
   refresh always directly follows a failed account lookup, and an
   update_channel rejected with a 401 is the only patch and the last call
   of the run, which is Failed with that error. *)
C8_PatchNotRetried ==
    /\ \A r \in Idx("refresh_tokens") :
         r > 1 /\ calls[r-1].op = "get_broadcaster_id" /\ calls[r-1].res # "ok"
    /\ \A i \in Idx("update_channel") :
         calls[i].res = "401" =>
           /\ pc = "Failed" /\ error = "401"
           /\ i = Len(calls)
           /\ Count("update_channel") = 1

C8_Witness ==
    /\ pc = "Failed"
    /\ \E i \in Idx("update_channel") : calls[i].res = "401"

(* C9: a metadata call that failed with something other than a 401 is the
   last call of the run, and the run is Failed. *)
C9_NonAuthTerminal ==
    \A i \in DOMAIN calls :
      (calls[i].op \in MetadataOps /\ calls[i].res \in {"http_error", "conn_error"}) =>
        /\ pc = "Failed"
        /\ i = Len(calls)

(* C10: in a preset run, once the controller connection or status query
   has failed, the run is Failed, that call is the last one issued, the
   single successful patch came before it, and the channel still holds
   the patched metadata. *)
C10_NoRollback ==
    \A i \in DOMAIN calls :
      (/\ args \in PresetKeys
       /\ calls[i].op \in {"obs_connect", "get_stream_status"}
       /\ calls[i].res = "unavailable") =>
        /\ pc = "Failed"
        /\ i = Len(calls)
        /\ Count("update_channel") = 1
        /\ \A u \in Idx("update_channel") : u < i /\ calls[u].res = "ok"
        /\ channel = Payload(title, game_id, get_preset(args).tags)

C10_Witness ==
    /\ pc = "Failed" /\ error = "unavailable"
    /\ args \in PresetKeys
    /\ calls[Len(calls)].op = "get_stream_status"
    /\ channel # [title |-> "Previous title", game_id |-> "0"]


(* Every call that goes over the network. *)
NetworkOps == MetadataOps \cup ControllerOps \cup {"exchange_code", "refresh_tokens"}
NetworkCalls == { i \in DOMAIN calls : calls[i].op \in NetworkOps }

(* C11: a run that ended on a missing configuration value (a Twitch
   credential or the controller password) has issued no network call. *)
C11_ConfigBeforeNetwork ==
    error \in {"Missing required environment variable", "OBS_WS_PASSWORD not set"}
      => NetworkCalls = {}

(* C12: once the refresh request has been rejected the run is Failed with
   that error and the refresh request is the last call issued: no
   exchange_code, no metadata call and no controller call follows it. *)
C12_RejectedRefreshTerminal ==
    \A r \in Idx("refresh_tokens") :
      calls[r].res # "ok" =>
        /\ pc = "Failed"
        /\ error = calls[r].res
        /\ r = Len(calls)
        /\ \A i \in Idx("exchange_code") : i < r

C12_Witness ==
    /\ RefreshRejected
    /\ Count("exchange_code") = 0
    /\ error = "401"


MetadataCalls == { i \in DOMAIN calls : calls[i].op \in MetadataOps }

(* C13: the code exchange is made exactly when run_preset finds no stored
   tokens.  The step out of load_tokens goes to the exchange iff the file is
   absent, and an exchange is only issued with the file absent and nothing
   saved yet; a successful exchange is followed at once by save_tokens and
   every metadata call comes after that save; a rejected exchange is the
   last call of the run, which is Failed with no token file and no metadata
   call. *)
C13_State ==
    /\ Count("exchange_code") <= 1
    /\ pc = "exchange_code" => TOKEN_FILE = <<>>
    /\ (pc = "get_broadcaster_id" /\ Count("exchange_code") = 0) => TOKEN_FILE # <<>>
    /\ \A e \in Idx("exchange_code") :
         /\ calls[e].res = "ok" =>
              /\ Len(calls) > e /\ calls[e+1].op = "save_tokens"
              /\ TOKEN_FILE # <<>>
              /\ \A m \in MetadataCalls : m > e + 1
         /\ calls[e].res # "ok" =>
              /\ pc = "Failed"
              /\ e = Len(calls)
              /\ TOKEN_FILE = <<>>
              /\ MetadataCalls = {}

C13_TokenAcquisition ==
    /\ []C13_State
    /\ [][ /\ pc = "run_preset" => (pc' = "exchange_code" <=> TOKEN_FILE = <<>>)
           /\ Count("exchange_code")' > Count("exchange_code") =>
                (pc = "exchange_code" /\ TOKEN_FILE = <<>> /\ Count("save_tokens") = 0)
         ]_vars

C13_Witness ==
    /\ Count("exchange_code") = 1
    /\ \A e \in Idx("exchange_code") : calls[e].res = "ok"
    /\ Count("get_broadcaster_id") >= 1
    /\ TOKEN_FILE = tokens


(* C14: in a preset run with auto_start off no controller call is ever
   made, and once the patch has succeeded the run is Done. *)
C14_AutoStartGating ==
    (args \in PresetKeys /\ ~cfg.auto_start) =>
      /\ ControllerCalls = {}
      /\ obs = "none"
      /\ (\E u \in Idx("update_channel") : calls[u].res = "ok") => pc = "Done"

C14_Witness ==
    /\ ~cfg.auto_start
    /\ pc = "Done"
    /\ Count("update_channel") = 1

(* C15: in the stop command every stop_stream directly follows a
   get_stream_status that answered active; when the command has ended, an
   answer of inactive goes with zero stop calls and an answer of active
   with exactly one; the command issues only controller calls, and no
   start_stream. *)
C15_StopGating ==
    args = "stop" =>
      /\ \A i \in Idx("stop_stream") :
           i > 1 /\ calls[i-1].op = "get_stream_status" /\ calls[i-1].res = "active"
      /\ Count("stop_stream") <= 1
      /\ pc \in {"Exit", "Failed"} =>
           \A i \in Idx("get_stream_status") :
             /\ calls[i].res = "inactive" => Count("stop_stream") = 0
             /\ calls[i].res = "active" => Count("stop_stream") = 1
      /\ \A i \in DOMAIN calls :
           calls[i].op \in {"obs_connect", "get_stream_status", "stop_stream"}

C15_Witness ==
    /\ args = "stop"
    /\ pc = "Exit"
    /\ Count("stop_stream") = 1
    /\ ~output_active

(* C16: with a first argument that is neither a command nor a preset key
   the process never gets past main: it issues no call at all (no token
   file access, no prompt, no network call) and ends Failed, with the
   reason "Unknown command or preset" when the credentials are present. *)
C16_UnknownPreset ==
    (args \notin PresetKeys \cup {"stop", ""}) =>
      /\ calls = <<>>
      /\ pc \in {"env", "main", "Failed"}
      /\ (pc = "Failed" /\ environ.TWITCH_CREDENTIALS) =>
           error = "Unknown command or preset"

C16_Witness ==
    /\ args = "bogus"
    /\ pc = "Failed"
    /\ error = "Unknown command or preset"

(* C17: in a preset run every controller call comes after an
   update_channel call that succeeded. *)
C17_MetadataBeforeBroadcast ==
    args \in PresetKeys =>
      \A c \in ControllerCalls :
        \E u \in Idx("update_channel") : u < c /\ calls[u].res = "ok"

C17_Witness ==
    /\ args \in PresetKeys
    /\ pc = "start_obs_status"
    /\ ControllerCalls # {}


(* The channel metadata before the run (Init). *)
PreviousChannel == [title |-> "Previous title", game_id |-> "0"]

(* C18 as stated: once the user has declined, the run has issued no
   mutating action at all: no token-file write, no patch, and the channel
   is as before. *)
C18_NothingMutatedAtConfirm ==
    Declined => /\ Count("save_tokens") = 0
                /\ Count("update_channel") = 0
                /\ channel = PreviousChannel

(* C18 amended: once the user has declined, no patch and no controller
   call has been issued and the channel is as it was before the run; the
   token file changes only in a step that issues save_tokens, which a
   declined run has done exactly when it exchanged a code or refreshed
   before the prompt. *)
C18_State ==
    Declined =>
      /\ Count("update_channel") = 0
      /\ ControllerCalls = {}
      /\ channel = PreviousChannel
      /\ Count("save_tokens") =
           Cardinality({ i \in Idx("exchange_code") \cup Idx("refresh_tokens") :
                           calls[i].res = "ok" })

C18_ChannelUntouchedAtConfirm ==
    /\ []C18_State
    /\ [][ TOKEN_FILE' # TOKEN_FILE =>
             Count("save_tokens")' > Count("save_tokens") ]_vars

C18_Witness ==
    /\ Declined
    /\ Count("save_tokens") = 1
    /\ Count("refresh_tokens") = 1
    /\ channel = PreviousChannel


(* C19: the payload of the patch, from the moment it is built.  There is at
   most one update_channel call; the title is the answer typed at the first
   prompt when that is not empty and the preset's title otherwise; game_id
   is the first element of the search result, whatever follows it; the
   tags field is present exactly when the preset has tags, and then equals
   them; a successful patch leaves exactly this payload on the channel. *)
C19_Payload ==
    /\ Count("update_channel") <= 1
    /\ (pc = "update_channel" \/ Count("update_channel") = 1) =>
         LET sent == Payload(title, game_id, get_preset(args).tags)
             p == CHOOSE i \in Idx("prompt") : \A j \in Idx("prompt") : i <= j
             preset == get_preset(args)
         IN  /\ sent.title = IF calls[p].res # "" THEN calls[p].res ELSE preset.title
             /\ data # <<>>
             /\ sent.game_id = Head(data)
             /\ ("tags" \in DOMAIN sent) <=> (preset.tags # <<>>)
             /\ preset.tags # <<>> => sent.tags = preset.tags
             /\ DOMAIN sent \subseteq {"title", "game_id", "tags"}
             /\ (\E u \in Idx("update_channel") : calls[u].res = "ok") => channel = sent

C19_Witness ==
    /\ args = "chat"
    /\ channel.title = "Custom title"
    /\ data = << "509658", "33214" >>
    /\ channel.game_id = "509658"
    /\ "tags" \notin DOMAIN channel

(* The requests made over a controller connection. *)
ControllerRequests ==
    { i \in DOMAIN calls : calls[i].op \in {"get_stream_status", "start_stream", "stop_stream"} }

(* C20 as stated: the status query and the start (or stop) each use a
   connection of their own, so each of them directly follows a connect. *)
C20_ConnectionPerOperation ==
    \A i \in ControllerRequests : i > 1 /\ calls[i-1].op = "obs_connect"

(* C20 amended: one connection per command.  At most one connect is made;
   the status query directly follows the successful connect, the start (or
   stop) directly follows the status query with no connect in between, and
   the connection made is the one held while they are issued. *)
C20_ConnectionPerCommand ==
    /\ Count("obs_connect") <= 1
    /\ \A i \in Idx("get_stream_status") :
         i > 1 /\ calls[i-1].op = "obs_connect" /\ calls[i-1].res = "ok"
    /\ \A i \in Idx("start_stream") \cup Idx("stop_stream") :
         i > 1 /\ calls[i-1].op = "get_stream_status"
    /\ pc \in {"start_obs_status", "start_stream", "stop_obs_status", "stop_stream"}
         => obs = "connected"
    /\ obs = "connected" <=> (\E i \in Idx("obs_connect") : calls[i].res = "ok")

C20_Witness ==
    /\ Count("obs_connect") = 1
    /\ Count("get_stream_status") = 1
    /\ Count("start_stream") = 1
    /\ pc = "Done"


(* C21: what Done means, and that Done and Failed end the run.  In Done
   exactly one update_channel was issued and it succeeded, no error is
   carried, and with auto_start on the status query succeeded and either
   answered active or was followed by an accepted start_stream; Failed
   carries an error; no step is taken from Done or from Failed, so no call
   follows either. *)
C21_State ==
    /\ pc = "Done" =>
         /\ Count("update_channel") = 1
         /\ \A u \in Idx("update_channel") : calls[u].res = "ok"
         /\ error = ""
         /\ cfg.auto_start =>
              /\ Count("get_stream_status") = 1
              /\ \A s \in Idx("get_stream_status") :
                   \/ calls[s].res = "active" /\ Count("start_stream") = 0
                   \/ /\ calls[s].res = "inactive"
                      /\ Count("start_stream") = 1
                      /\ \A t \in Idx("start_stream") : calls[t].res = "ok"
    /\ pc = "Failed" => error # ""

C21_DoneMeaning ==
    /\ []C21_State
    /\ [][ pc \notin {"Done", "Failed"} ]_vars

C21_Witness ==
    /\ pc = "Done"
    /\ cfg.auto_start
    /\ Count("start_stream") = 0
    /\ output_active


(* C22: every step that issues a metadata call sends the access_token of
   the TokenSet that the token file holds at that moment, and leaves the
   file alone; so every metadata call made after a successful refresh
   carries the refreshed token that is on file. *)
C22_AfterRefresh ==
    \A r \in Idx("refresh_tokens") :
      calls[r].res = "ok" =>
        \A m \in MetadataCalls :
          m > r => calls[m].tok = TOKEN_FILE[1].access_token

C22_TokenInUse ==
    /\ []C22_AfterRefresh
    /\ [][ (Len(calls') > Len(calls) /\ calls'[Len(calls')].op \in MetadataOps) =>
             /\ TOKEN_FILE' # <<>>
             /\ TOKEN_FILE' = TOKEN_FILE
             /\ calls'[Len(calls')].tok = TOKEN_FILE'[1].access_token ]_vars

C22_Witness ==
    /\ \E r \in Idx("refresh_tokens") : calls[r].res = "ok"
    /\ \E m \in Idx("get_broadcaster_id") : calls[m].tok = 1
    /\ \E m \in Idx("update_channel") : calls[m].tok = 2
    /\ TOKEN_FILE[1].access_token = 2


(* The run under the assumption that every remote call and every prompt
   returns: a step that can be taken is eventually taken. *)
FairSpec == Spec /\ WF_vars(Next)

(* C23: a preset run ends in Done or Failed, and on the way issues at most
   one code exchange, one refresh, two account lookups, one category
   lookup, one patch, one status query, one start and two token-file
   writes; no step issues more than one network call. *)
C23_Counts ==
    args \in PresetKeys =>
      /\ Count("exchange_code") <= 1
      /\ Count("refresh_tokens") <= 1
      /\ Count("get_broadcaster_id") <= 2
      /\ Count("get_game_id") <= 1
      /\ Count("update_channel") <= 1
      /\ Count("get_stream_status") <= 1
      /\ Count("start_stream") <= 1
      /\ Count("save_tokens") <= 2

C23_BoundedRun ==
    /\ []C23_Counts
    /\ [][ Cardinality(NetworkCalls') <= Cardinality(NetworkCalls) + 1 ]_vars
    /\ (args \in PresetKeys) ~> (pc \in {"Done", "Failed"})

C23_Witness ==
    /\ pc = "Done"
    /\ Count("exchange_code") = 1
    /\ Count("refresh_tokens") = 1
    /\ Count("get_broadcaster_id") = 2
    /\ Count("save_tokens") = 2
    /\ Count("start_stream") = 1


----------------------------------------------------------------------------
(* Two invocations of the program sharing ~/.twitch-go/tokens.json.  The
   same variables are used, the per-run ones (pc, tokens, access_token,
   broadcaster_id, error) as functions of the invocation; TOKEN_FILE holds
   the text of the file, <<>> when the file is absent and <<text>> when it
   exists.  Path.write_text opens the file for writing, which truncates
   it, and writes the text from offset 0 when the file is closed; the two
   are separate steps that another invocation can come between.  Each
   invocation is followed up to the prompts: nothing after them touches
   the token file, and `calls` keeps the token-file accesses only. *)
Procs == {1, 2}

Chunk(k, v) == [k |-> k, v |-> v]

(* json.dumps(tokens, indent=2): the text as a sequence of pieces; the
   scope value is the same in every TokenSet and is written as 0 *)
json_dumps(t) ==
    << Chunk("{", 0), Chunk("access_token", t.access_token),
       Chunk(",", 0), Chunk("refresh_token", t.refresh_token) >>
    \o (IF "scope" \in DOMAIN t THEN << Chunk(",", 0), Chunk("scope", 0) >> ELSE <<>>)
    \o << Chunk("}", 0) >>

(* json.loads raises JSONDecodeError unless the text is one JSON object *)
IsJson(text) == \E t \in TokenSets : json_dumps(t) = text

json_loads(text) == CHOOSE t \in TokenSets : json_dumps(t) = text

(* a write at offset 0: the text replaces the leading part of the file,
   what lies beyond its length stays *)
write_at_start(content, text) ==
    text \o SubSeq(content, Len(text) + 1, Len(content))

CallBy(p, op, res, tok) == [op |-> op, res |-> res, tok |-> tok, by |-> p]

ConcInit ==
    /\ pc = [p \in Procs |-> "run_preset"]
    /\ environ = [TWITCH_CREDENTIALS |-> TRUE, OBS_WS_PASSWORD |-> TRUE]
    /\ args = "valorant"
    /\ cfg = [confirm |-> TRUE, auto_start |-> TRUE]
    /\ TOKEN_FILE \in { <<>>, << json_dumps([access_token |-> 1, refresh_token |-> 1,
                                            scope |-> "channel:manage:broadcast"]) >> }
    /\ tokens = [p \in Procs |-> <<>>]
    /\ access_token = [p \in Procs |-> 0]
    /\ broadcaster_id = [p \in Procs |-> ""]
    /\ title = ""
    /\ data = <<>>
    /\ game_id = ""
    /\ calls = <<>>
    /\ channel = PreviousChannel
    /\ output_active = FALSE
    /\ obs = "none"
    /\ error = [p \in Procs |-> ""]

ConcFail(p, msg) ==
    /\ pc' = [pc EXCEPT ![p] = "Failed"]
    /\ error' = [error EXCEPT ![p] = msg]

(* run_preset, lines 390-391, with load_tokens *)
conc_load_tokens(p) ==
    /\ pc[p] = "run_preset"
    /\ IF TOKEN_FILE = <<>>
       THEN /\ calls' = Append(calls, CallBy(p, "load_tokens", "ok", 0))
            /\ pc' = [pc EXCEPT ![p] = "exchange_code"]
            /\ UNCHANGED <<tokens, error>>
       ELSE IF IsJson(TOKEN_FILE[1])
       THEN /\ calls' = Append(calls, CallBy(p, "load_tokens", "ok", 0))
            /\ tokens' = [tokens EXCEPT ![p] = << json_loads(TOKEN_FILE[1]) >>]
            /\ pc' = [pc EXCEPT ![p] = "get_broadcaster_id"]
            /\ UNCHANGED error
       ELSE /\ calls' = Append(calls, CallBy(p, "load_tokens", "JSONDecodeError", 0))
            /\ ConcFail(p, "JSONDecodeError")
            /\ UNCHANGED tokens
    /\ UNCHANGED <<environ, args, cfg, TOKEN_FILE, access_token, broadcaster_id,
                   title, data, game_id, channel, output_active, obs>>

(* run_preset, lines 392-395: the exchange, before save_tokens *)
conc_exchange_code(p) ==
    /\ pc[p] = "exchange_code"
    /\ \E res \in HttpResults, t \in TokenSets :
         /\ IF res = "ok"
            THEN /\ tokens' = [tokens EXCEPT ![p] = << t >>]
                 /\ pc' = [pc EXCEPT ![p] = "exchange_save_open"]
                 /\ UNCHANGED error
            ELSE ConcFail(p, res) /\ UNCHANGED tokens
    /\ UNCHANGED calls
    /\ UNCHANGED <<environ, args, cfg, TOKEN_FILE, access_token, broadcaster_id,
                   title, data, game_id, channel, output_active, obs>>

(* run_preset, lines 398-401 *)
conc_get_broadcaster_id(p) ==
    /\ pc[p] = "get_broadcaster_id"
    /\ access_token' = [access_token EXCEPT ![p] = tokens[p][1].access_token]
    /\ \E res \in HttpResults :
         /\ IF res = "ok"
            THEN /\ broadcaster_id' = [broadcaster_id EXCEPT ![p] = "141981764"]
                 /\ pc' = [pc EXCEPT ![p] = "prompt"]
                 /\ UNCHANGED error
            ELSE IF IsHTTPError(res)
            THEN /\ pc' = [pc EXCEPT ![p] = "refresh_tokens"]
                 /\ UNCHANGED <<broadcaster_id, error>>
            ELSE ConcFail(p, res) /\ UNCHANGED broadcaster_id
    /\ UNCHANGED calls
    /\ UNCHANGED <<environ, args, cfg, TOKEN_FILE, tokens, title, data, game_id,
                   channel, output_active, obs>>

(* run_preset, line 402: the refresh, before save_tokens *)
conc_refresh_tokens(p) ==
    /\ pc[p] = "refresh_tokens"
    /\ \E res \in HttpResults, t \in TokenSets :
         /\ IF res = "ok"
            THEN /\ tokens' = [tokens EXCEPT ![p] = << t >>]
                 /\ pc' = [pc EXCEPT ![p] = "refresh_save_open"]
                 /\ UNCHANGED error
            ELSE ConcFail(p, res) /\ UNCHANGED tokens
    /\ UNCHANGED calls
    /\ UNCHANGED <<environ, args, cfg, TOKEN_FILE, access_token, broadcaster_id,
                   title, data, game_id, channel, output_active, obs>>

(* save_tokens, line 295: write_text opens TOKEN_FILE with mode "w" *)
conc_save_tokens_open(p) ==
    /\ pc[p] \in {"exchange_save_open", "refresh_save_open"}
    /\ TOKEN_FILE' = << <<>> >>
    /\ pc' = [pc EXCEPT ![p] = IF pc[p] = "exchange_save_open"
                               THEN "exchange_save_write" ELSE "refresh_save_write"]
    /\ UNCHANGED <<environ, args, cfg, tokens, access_token, broadcaster_id,
                   title, data, game_id, calls, channel, output_active, obs, error>>

(* save_tokens, line 295: the text is written and the file closed; then
   line 397 or line 404 *)
conc_save_tokens_write(p) ==
    /\ pc[p] \in {"exchange_save_write", "refresh_save_write"}
    /\ TOKEN_FILE' = << write_at_start(TOKEN_FILE[1], json_dumps(tokens[p][1])) >>
    /\ calls' = Append(calls, CallBy(p, "save_tokens", "ok", 0))
    /\ IF pc[p] = "exchange_save_write"
       THEN /\ pc' = [pc EXCEPT ![p] = "get_broadcaster_id"]
            /\ UNCHANGED access_token
       ELSE /\ pc' = [pc EXCEPT ![p] = "retry_get_broadcaster_id"]
            /\ access_token' = [access_token EXCEPT ![p] = tokens[p][1].access_token]
    /\ UNCHANGED <<environ, args, cfg, tokens, broadcaster_id, title, data,
                   game_id, channel, output_active, obs, error>>

(* run_preset, line 405 *)
conc_retry_get_broadcaster_id(p) ==
    /\ pc[p] = "retry_get_broadcaster_id"
    /\ \E res \in HttpResults :
         /\ IF res = "ok"
            THEN /\ broadcaster_id' = [broadcaster_id EXCEPT ![p] = "141981764"]
                 /\ pc' = [pc EXCEPT ![p] = "prompt"]
                 /\ UNCHANGED error
            ELSE ConcFail(p, res) /\ UNCHANGED broadcaster_id
    /\ UNCHANGED calls
    /\ UNCHANGED <<environ, args, cfg, TOKEN_FILE, tokens, access_token, title,
                   data, game_id, channel, output_active, obs>>

ConcNext ==
    \E p \in Procs :
       \/ conc_load_tokens(p)
       \/ conc_exchange_code(p)
       \/ conc_get_broadcaster_id(p)
       \/ conc_refresh_tokens(p)
       \/ conc_save_tokens_open(p)
       \/ conc_save_tokens_write(p)
       \/ conc_retry_get_broadcaster_id(p)

ConcSpec == ConcInit /\ [][ConcNext]_vars

(* C24: when both invocations have saved a TokenSet and neither is still
   running its token steps, the file holds exactly the text of the
   TokenSet written by the save that came last. *)
C24_LastWriterWins ==
    LET saves == Idx("save_tokens")
    IN  (/\ \A p \in Procs : pc[p] \in {"prompt", "Failed"}
         /\ \A p \in Procs : \E i \in saves : calls[i].by = p) =>
          LET last == CHOOSE i \in saves : \A j \in saves : j <= i
          IN  TOKEN_FILE = << json_dumps(tokens[calls[last].by][1]) >>

====
